---- MODULE Spec2Model ----
(***************************************************************************)
(* MLLP transport of the HL7 testing framework: the client                 *)
(* (src/src/mllp_client.py, MLLPClient) and the mock target server         *)
(* (src/mock_target/mock_mllp_target.py, MockMLLPTarget).                  *)
(*                                                                         *)
(* Bytes are integers 0..255, byte strings are sequences of bytes, text is *)
(* a sequence of code points.  UTF-8 is modelled for code points below     *)
(* 2048 (one- and two-byte sequences); the inputs never hold a lead byte   *)
(* of a three- or four-byte sequence.                                      *)
(***************************************************************************)
EXTENDS Integers, Sequences, FiniteSets, TLC

(***************************************************************************)
(* Bounds of the model.                                                    *)
(***************************************************************************)
NConn == 2
MaxRawLen == 3
MaxPayloadLen == 3
MaxTests == 2
MaxCalls == 2

Conns == 1..NConn

(***************************************************************************)
(* Protocol characters.                                                    *)
(***************************************************************************)
START_OF_BLOCK == 11
END_OF_BLOCK == 28
CARRIAGE_RETURN == 13
MLLP_START == <<11>>
MLLP_END == <<28, 13>>

LineFeed == <<10>>
Pipe == <<124>>
MSA == <<77, 83, 65>>
MSH == <<77, 83, 72>>
AA == <<65, 65>>
AE == <<65, 69>>
UNKNOWN == <<85, 78, 75, 78, 79, 87, 78>>

(***************************************************************************)
(* Optional values: Python's None against a value.                         *)
(***************************************************************************)
NoneVal == [present |-> FALSE, val |-> <<>>]
Some(v) == [present |-> TRUE, val |-> v]

(***************************************************************************)
(* Byte-string and text helpers (Python bytes / str methods).              *)
(***************************************************************************)
StartsWith(s, p) == Len(s) >= Len(p) /\ SubSeq(s, 1, Len(p)) = p

EndsWith(s, p) == Len(s) >= Len(p) /\ SubSeq(s, Len(s) - Len(p) + 1, Len(s)) = p

Contains(s, p) == \E i \in 1..(Len(s) - Len(p) + 1) : SubSeq(s, i, i + Len(p) - 1) = p

Replace1(s, b) == SelectSeq(s, LAMBDA x : x # b)

FirstIndex(s, b) == CHOOSE i \in 1..Len(s) : s[i] = b /\ \A j \in 1..(i - 1) : s[j] # b

\* The position of the k-th occurrence of b in s; 0 for k = 0 and
\* Len(s) + 1 when s has fewer than k occurrences.
Occurrence(s, b, k) ==
    IF k = 0 THEN 0
    ELSE IF Cardinality({i \in 1..Len(s) : s[i] = b}) < k THEN Len(s) + 1
    ELSE CHOOSE i \in 1..Len(s) :
             s[i] = b /\ Cardinality({j \in 1..i : s[j] = b}) = k

SplitValue(s, b) ==
    [k \in 1..(Cardinality({i \in 1..Len(s) : s[i] = b}) + 1) |->
        SubSeq(s, Occurrence(s, b, k - 1) + 1, Occurrence(s, b, k) - 1)]

\* s.split(b): the pieces of s between the occurrences of b.  (The
\* argument is bound once, so that it is evaluated once.)
Split(s, b) == CHOOSE pieces \in {SplitValue(v, b) : v \in {s}} : TRUE

(***************************************************************************)
(* UTF-8, for code points below 2048.                                      *)
(***************************************************************************)
IsLead2(x) == x >= 194 /\ x <= 223
IsCont(x) == x >= 128 /\ x <= 191

RECURSIVE Utf8Encode(_)
Utf8Encode(t) ==
    IF t = <<>> THEN <<>>
    ELSE IF t[1] < 128
         THEN <<t[1]>> \o Utf8Encode(Tail(t))
         ELSE <<192 + (t[1] \div 64), 128 + (t[1] % 64)>> \o Utf8Encode(Tail(t))

RECURSIVE Utf8Valid(_)
Utf8Valid(b) ==
    IF b = <<>> THEN TRUE
    ELSE IF b[1] < 128 THEN Utf8Valid(Tail(b))
    ELSE IF IsLead2(b[1]) /\ Len(b) >= 2 /\ IsCont(b[2])
         THEN Utf8Valid(SubSeq(b, 3, Len(b)))
         ELSE FALSE

\* bytes.decode('utf-8', errors='ignore'): an invalid byte is dropped.
RECURSIVE Utf8DecodeIgnore(_)
Utf8DecodeIgnore(b) ==
    IF b = <<>> THEN <<>>
    ELSE IF b[1] < 128 THEN <<b[1]>> \o Utf8DecodeIgnore(Tail(b))
    ELSE IF IsLead2(b[1]) /\ Len(b) >= 2 /\ IsCont(b[2])
         THEN <<(b[1] - 192) * 64 + (b[2] - 128)>> \o Utf8DecodeIgnore(SubSeq(b, 3, Len(b)))
         ELSE Utf8DecodeIgnore(Tail(b))

(***************************************************************************)
(* MLLPClient, the pure parts.                                             *)
(***************************************************************************)
\* send_message line 49: the MLLP envelope around the encoded message.
WrapMllpNoReturn(hl7_message) ==
    <<START_OF_BLOCK>> \o Utf8Encode(hl7_message) \o <<END_OF_BLOCK>>

WrapMllp(hl7_message) ==
    <<START_OF_BLOCK>> \o Utf8Encode(hl7_message) \o <<END_OF_BLOCK>> \o <<CARRIAGE_RETURN>>

\* _unwrap_mllp: the three replace() calls, then a strict decode; any
\* exception gives the empty string.
UnwrapMllp(mllp_message) ==
    LET message == Replace1(Replace1(Replace1(mllp_message, START_OF_BLOCK),
                                     END_OF_BLOCK), CARRIAGE_RETURN)
    IN  IF Utf8Valid(message) THEN Utf8DecodeIgnore(message) ELSE <<>>

\* _is_positive_ack, the test of one line.
PositiveLineFirstField(line) ==
    /\ StartsWith(line, MSA)
    /\ LET fields == Split(line, Pipe[1])
       IN  Len(fields) > 1 /\ fields[1] = AA

PositiveLine(line) ==
    /\ StartsWith(line, MSA)
    /\ LET fields == Split(line, Pipe[1])
       IN  Len(fields) > 1 /\ fields[2] = AA

\* _is_positive_ack
IsPositiveAck(ack_message) ==
    LET lines == Split(ack_message, LineFeed[1])
    IN  \E i \in 1..Len(lines) : PositiveLine(lines[i])

(***************************************************************************)
(* MockMLLPTarget, the pure parts.                                         *)
(***************************************************************************)
\* _read_mllp_message line 141: buffer[:-2].decode('utf-8', errors='ignore')
ReaderMessageKeepEnd(buffer) == Utf8DecodeIgnore(SubSeq(buffer, 1, Len(buffer) - 1))

ReaderMessage(buffer) == Utf8DecodeIgnore(SubSeq(buffer, 1, Len(buffer) - 2))

\* The header segment ends at the first line break.
HeaderSegment(message) ==
    Split(Split(message, CARRIAGE_RETURN)[1], LineFeed[1])[1]

\* Control identifier: 10th pipe-delimited field of the header segment.
ControlId(message) ==
    LET fields == Split(HeaderSegment(message), Pipe[1])
    IN  IF Len(fields) > 9 THEN fields[10] ELSE UNKNOWN

\* The acknowledgment payload MSA|AA|<original-control-id>.
AckPayload(message) == MSA \o Pipe \o AA \o Pipe \o ControlId(message)

\* The framed acknowledgment.
AckFrame(message) == MLLP_START \o Utf8Encode(AckPayload(message)) \o MLLP_END


(***************************************************************************)
(* TestRunner, the pure parts.                                             *)
(***************************************************************************)
\* _extract_message_id, lines 212-221: the first line, split on '|',
\* index 9.
ExtractMessageId(hl7_message) ==
    LET msh_segment == Split(hl7_message, LineFeed[1])[1]
        fields == Split(msh_segment, Pipe[1])
    IN  IF Len(fields) > 9 THEN fields[10] ELSE UNKNOWN

(***************************************************************************)
(* Inputs.                                                                 *)
(***************************************************************************)
\* The control identifier of the message client c sends: the digit c.
CtrlIdOf(c) == <<48 + c>>

\* MSH|||||||||<id> : a header whose 10th field is the control identifier.
GoodMsg(c) == MSH \o Pipe \o Pipe \o Pipe \o Pipe \o Pipe \o Pipe \o Pipe \o Pipe \o Pipe
                  \o CtrlIdOf(c)

\* MSH|||||||||<id>|P<CR>MSA|AA|<id> : the shape of the accept/respond
\* scenario message, a header followed by a second segment.
ScenarioMsg(c) == GoodMsg(c) \o Pipe \o <<80>> \o <<CARRIAGE_RETURN>>
                      \o MSA \o Pipe \o AA \o Pipe \o CtrlIdOf(c)

Messages(c) == {GoodMsg(c), ScenarioMsg(c)}

\* MSH|1 : a header with fewer than 10 fields.
ShortMsg == MSH \o Pipe \o <<49>>

\* The messages of the test cases: MSH|a|b|c|d|e|f|g|h|i|CTRL123, and MSH|1
\* followed by the segment P|2|3|4|5|6|7|8|Z after a carriage return and after
\* a line feed.
ExampleHeader == <<77, 83, 72, 124, 97, 124, 98, 124, 99, 124, 100, 124, 101, 124, 102, 124, 103, 124, 104, 124, 105, 124, 67, 84, 82, 76, 49, 50, 51>>

SecondSegment == <<80, 124, 50, 124, 51, 124, 52, 124, 53, 124, 54, 124, 55, 124, 56, 124, 90>>

TestMessages ==
    { ExampleHeader,
      ShortMsg \o <<CARRIAGE_RETURN>> \o SecondSegment,
      ShortMsg \o LineFeed \o SecondSegment }

\* Texts given to send_message: every text up to MaxPayloadLen over the start
\* sentinel, a lone 0x1C, a carriage return, a letter and a two-byte character.
PayloadAlphabet == {START_OF_BLOCK, END_OF_BLOCK, CARRIAGE_RETURN, 120, 233}

Payloads == UNION {[1..n -> PayloadAlphabet] : n \in 0..MaxPayloadLen}

\* Byte strings a raw peer may send before it closes.
RawAlphabet == {START_OF_BLOCK, END_OF_BLOCK, CARRIAGE_RETURN, 120, 255}

\* Framed messages, alone, after noise, followed by a second frame, and cut
\* short after the start sentinel and 10 bytes.
FramedScripts ==
    { WrapMllp(GoodMsg(1)),
      WrapMllp(ScenarioMsg(1)),
      WrapMllp(ShortMsg),
      <<120, 255>> \o WrapMllp(GoodMsg(1)),
      WrapMllp(GoodMsg(1)) \o WrapMllp(GoodMsg(2)),
      WrapMllp(<<120, 255>>),
      WrapMllp(<<255>>),
      SubSeq(WrapMllp(GoodMsg(1)), 1, 11),
      <<120>> \o WrapMllp(ShortMsg),
      <<END_OF_BLOCK, CARRIAGE_RETURN>> \o WrapMllp(ShortMsg),
      <<CARRIAGE_RETURN, 255>> \o WrapMllp(<<START_OF_BLOCK, 120>>),
      WrapMllp(<<120, END_OF_BLOCK, CARRIAGE_RETURN, 121>>) }

\* What a peer that gives up sends: a frame cut short, a whole frame.
AbortScripts == {MLLP_START \o <<120>>, WrapMllp(<<120>>)}

RawScripts == UNION {[1..n -> RawAlphabet] : n \in 0..MaxRawLen} \cup FramedScripts

\* Byte strings the environment's server may answer with.
AckAA == MSA \o Pipe \o AA \o Pipe \o <<49>>
AckAE == MSA \o Pipe \o AE \o Pipe \o <<49>>
HdrX == MSH \o Pipe \o <<120>>

ResponsePayloads ==
    { AckAA,
      AckAE,
      HdrX,
      MSA,
      <<>>,
      HdrX \o <<CARRIAGE_RETURN>> \o AckAA,
      HdrX \o LineFeed \o AckAA,
      HdrX \o LineFeed \o AckAE,
      AckAA \o LineFeed \o HdrX,
      <<255>> \o LineFeed \o AckAA }

\* What the server answers to the test runner's clients.
RunnerResponses == {MLLP_START \o AckAA \o MLLP_END, MLLP_START \o AckAE \o MLLP_END, <<>>}

Responses ==
    {MLLP_START \o p \o MLLP_END : p \in ResponsePayloads}
        \cup {<<>>, MLLP_START \o AckAA, MLLP_START \o AckAA \o <<END_OF_BLOCK>>,
              MLLP_START \o AckAE \o MLLP_END \o MLLP_START \o AckAA \o MLLP_END,
              MLLP_START \o HdrX \o MLLP_END
                  \o MLLP_START \o LineFeed \o AckAA \o MLLP_END}

(***************************************************************************)
(* State.                                                                  *)
(***************************************************************************)
VARIABLES
    running,        \* MockMLLPTarget.running
    server_socket,  \* MockMLLPTarget.server_socket: none, created, bound, listening, closed
    spc,            \* position of start()
    stpc,           \* position of stop()
    backlog,        \* connections completed by the kernel, not yet accepted
    hpc,            \* position of the handler thread started for a connection
    buffer,         \* _read_mllp_message: buffer
    message,        \* _handle_client: message
    hexc,           \* the exception a handler has caught, if any
    wrote,          \* per connection, the byte strings handlers passed to sendall
    touched,        \* per connection, the handlers that used its server socket
    c2s,            \* bytes in flight from the peer to the server
    s2c,            \* bytes in flight from the server to the peer
    ssock,          \* server end of a connection: none, pending, open, closed
    cend,           \* peer end of a connection: none, open, closed
    kind,           \* the peer of a connection: client, raw, absent
    cpc,            \* position of the peer
    csock,          \* MLLPClient.socket: none, unconnected, connected
    cmsg,           \* the message given to send_message
    sentBytes,      \* the bytes the peer has sent
    response,       \* _receive_response: response
    result,         \* the tuple send_message returned
    cfail,          \* the transport failure the client has met, if any
    envResp,        \* what the environment's server answers
    envSent,        \* how much of it has been written
    created,        \* per client, the sockets it has created (line 27)
    released,       \* per client, the sockets it has closed (line 123)
    cycles,         \* per client, the sendall calls made on the socket it holds
    raised,         \* per client, whether an exception left a public operation
    calls,          \* per client, the further calls its caller has made
    message_id,     \* TestRunner._execute_test: message_id
    recvs,          \* _receive_response: recv calls made by the current call
    connection,     \* RoutingLogQuery: self.connection
    routing_data,   \* TestRunner._execute_test: routing_data
    passed,         \* TestRunner._execute_test: result.passed
    queries         \* calls of query_routing_log made by the current test case

vars == <<running, server_socket, spc, stpc, backlog, hpc, buffer, message, hexc,
          wrote, touched, c2s, s2c, ssock, cend, kind, cpc, csock, cmsg, sentBytes,
          response, result, cfail, envResp, envSent, created, released, cycles, raised,
          calls, message_id, recvs, connection, routing_data, passed, queries>>

serverVars == <<running, server_socket, spc, stpc>>
handlerVars == <<hpc, buffer, message, hexc>>
clientVars == <<cpc, csock, cmsg, response, result, cfail, recvs>>
envVars == <<envResp, envSent>>
apiVars == <<created, released, cycles, raised, calls>>
dbVars == <<connection, routing_data, passed, queries>>

Absent == "absent"
NoResult == [success |-> FALSE, ack |-> NoneVal, error |-> "unset"]

InitWith(kinds, msgs, sock, pos, resp) ==
    /\ running = FALSE
    /\ server_socket = sock
    /\ spc = pos
    /\ stpc = "idle"
    /\ backlog = <<>>
    /\ hpc = [c \in Conns |-> "none"]
    /\ buffer = [c \in Conns |-> <<>>]
    /\ message = [c \in Conns |-> NoneVal]
    /\ hexc = [c \in Conns |-> "none"]
    /\ wrote = [c \in Conns |-> <<>>]
    /\ touched = [c \in Conns |-> {}]
    /\ c2s = [c \in Conns |-> <<>>]
    /\ s2c = [c \in Conns |-> <<>>]
    /\ ssock = [c \in Conns |-> "none"]
    /\ cend = [c \in Conns |-> "none"]
    /\ kind = kinds
    /\ cpc = [c \in Conns |-> "new"]
    /\ csock = [c \in Conns |-> "none"]
    /\ cmsg = msgs
    /\ sentBytes = [c \in Conns |-> <<>>]
    /\ response = [c \in Conns |-> <<>>]
    /\ result = [c \in Conns |-> NoResult]
    /\ cfail = [c \in Conns |-> "none"]
    /\ envResp = resp
    /\ envSent = 0
    /\ created = [c \in Conns |-> 0]
    /\ released = [c \in Conns |-> 0]
    /\ cycles = [c \in Conns |-> 0]
    /\ raised = [c \in Conns |-> FALSE]
    /\ calls = [c \in Conns |-> 0]
    /\ message_id = [c \in Conns |-> NoneVal]
    /\ recvs = [c \in Conns |-> 0]
    /\ connection = "none"
    /\ routing_data = "unset"
    /\ passed = FALSE
    /\ queries = 0

\* The mock target and NConn clients.
Init ==
    InitWith([c \in Conns |-> "client"], [c \in Conns |-> GoodMsg(c)], "none", "init", <<>>)

(***************************************************************************)
(* MockMLLPTarget.start and MockMLLPTarget.stop.                           *)
(***************************************************************************)
\* line 40: create the listening socket.
StartSocket ==
    /\ spc = "init"
    /\ server_socket' = "created"
    /\ spc' = "bind"
    /\ UNCHANGED <<running, stpc, backlog, handlerVars, wrote, touched, c2s, s2c, ssock,
                   cend, kind, dbVars, clientVars, sentBytes, envVars, apiVars, message_id>>

\* line 44: bind; a failure (address in use, socket already closed by
\* stop) is logged and re-raised by lines 77-79.
StartBind ==
    /\ spc = "bind"
    /\ \E ok \in BOOLEAN :
          /\ ok => server_socket = "created"
          /\ server_socket' = IF ok THEN "bound" ELSE server_socket
          /\ spc' = IF ok THEN "listen" ELSE "raised"
    /\ UNCHANGED <<running, stpc, backlog, handlerVars, wrote, touched, c2s, s2c, ssock,
                   cend, kind, dbVars, clientVars, sentBytes, envVars, apiVars, message_id>>

\* line 47: listen.
StartListen ==
    /\ spc = "listen"
    /\ IF server_socket = "bound"
       THEN server_socket' = "listening" /\ spc' = "setrunning"
       ELSE server_socket' = server_socket /\ spc' = "raised"
    /\ UNCHANGED <<running, stpc, backlog, handlerVars, wrote, touched, c2s, s2c, ssock,
                   cend, kind, dbVars, clientVars, sentBytes, envVars, apiVars, message_id>>

\* line 49: self.running = True
StartSetRunning ==
    /\ spc = "setrunning"
    /\ running' = TRUE
    /\ spc' = "loop"
    /\ UNCHANGED <<server_socket, stpc, backlog, handlerVars, wrote, touched, c2s, s2c,
                   ssock, cend, kind, dbVars, clientVars, sentBytes, envVars, apiVars, message_id>>

\* line 58: while self.running
LoopTest ==
    /\ spc = "loop"
    /\ spc' = IF running THEN "accept" ELSE "returned"
    /\ UNCHANGED <<running, server_socket, stpc, backlog, handlerVars, wrote, touched, c2s,
                   s2c, ssock, cend, kind, dbVars, clientVars, sentBytes, envVars, apiVars, message_id>>

\* lines 66-69: the socket the new thread is given.
ClientSocketOfFirst(accepted) == 1

ClientSocketOf(accepted) == accepted

\* lines 66-71: the handler runs in a thread of its own; start() returns at
\* once and the loop goes on.
AfterDispatchInline == "handling"

AfterDispatch == "loop"

\* line 61: accept returns a connection of a listening socket; this includes
\* the socket whose descriptor stop() closed while the accept was waiting.
Accepting(sock) == sock \in {"listening", "detached"}

\* line 61: the accept that was waiting when the descriptor was closed
\* was the last one: every later accept finds the descriptor closed.
AfterAccept(sock) == IF sock = "detached" THEN "closed" ELSE sock

\* lines 61-71: accept one connection and start its handler thread.
Accept ==
    /\ spc = "accept"
    /\ Accepting(server_socket)
    /\ backlog # <<>>
    /\ LET c == Head(backlog)
       IN  /\ ssock' = [ssock EXCEPT ![c] = "open"]
           /\ hpc' = [hpc EXCEPT ![c] = "seek"]
    /\ backlog' = Tail(backlog)
    /\ server_socket' = AfterAccept(server_socket)
    /\ spc' = AfterDispatch
    /\ UNCHANGED <<running, stpc, buffer, message, hexc, wrote, touched,
                   c2s, s2c, cend, kind, dbVars, clientVars, sentBytes, envVars, apiVars, message_id>>

\* lines 73-75: an exception of lines 61-71 is caught inside the loop body,
\* which then falls through to the loop test (not by lines 77-79).
AfterLoopExceptionOuter == "raised"

AfterLoopException == "loop"

\* lines 73-75: accept on the closed listening socket raises; the exception
\* is caught and the loop goes on.
AcceptRaise ==
    /\ spc = "accept"
    /\ server_socket = "closed"
    /\ spc' = AfterLoopException
    /\ UNCHANGED <<running, server_socket, stpc, backlog, handlerVars, wrote, touched, c2s,
                   s2c, ssock, cend, kind, dbVars, clientVars, sentBytes, envVars, apiVars, message_id>>

\* lines 61 and 73-75: accept on the open listening socket fails (no
\* descriptor left, no memory); the connection stays in the backlog.
AcceptFail ==
    /\ spc = "accept"
    /\ server_socket = "listening"
    /\ spc' = AfterLoopException
    /\ UNCHANGED <<running, server_socket, stpc, backlog, handlerVars, wrote, touched, c2s,
                   s2c, ssock, cend, kind, dbVars, clientVars, sentBytes, envVars, apiVars, message_id>>

\* lines 61-71 and 73-75: the connection is accepted and starting its thread
\* fails (Thread.start raises RuntimeError); no handler runs for it.
DispatchRaise ==
    /\ spc = "accept"
    /\ Accepting(server_socket)
    /\ backlog # <<>>
    /\ ssock' = [ssock EXCEPT ![Head(backlog)] = "open"]
    /\ backlog' = Tail(backlog)
    /\ server_socket' = AfterAccept(server_socket)
    /\ spc' = AfterLoopException
    /\ UNCHANGED <<running, stpc, handlerVars, wrote, touched, c2s, s2c,
                   cend, kind, dbVars, clientVars, sentBytes, envVars, apiVars, message_id>>

\* line 152: self.running = False
StopClear ==
    /\ stpc = "idle"
    /\ running' = FALSE
    /\ stpc' = "cleared"
    /\ UNCHANGED <<server_socket, spc, backlog, handlerVars, wrote, touched, c2s, s2c,
                   ssock, cend, kind, dbVars, clientVars, sentBytes, envVars, apiVars, message_id>>

\* lines 153-154: the connections that closing the listening socket ends are
\* those still waiting in its backlog, never an accepted one.
StopClosesAccepted(c) == ssock[c] \in {"pending", "open"}

StopCloses(c) == \E i \in 1..Len(backlog) : backlog[i] = c

\* lines 153-154: close the listening socket; the kernel resets the
\* connections still waiting in its backlog.  When start() is waiting in
\* accept (line 61) at that moment, closing the descriptor under it has no
\* defined effect on the call: it fails, or it keeps waiting on the socket,
\* which the kernel keeps until the call ends, and returns the next
\* connection.
StopClose ==
    /\ stpc = "cleared"
    /\ stpc' = "done"
    /\ \/ /\ server_socket = "none"
          /\ UNCHANGED <<server_socket, backlog, ssock>>
       \/ /\ server_socket # "none"
          /\ server_socket' = "closed"
          /\ backlog' = <<>>
          /\ ssock' = [c \in Conns |-> IF StopCloses(c) THEN "closed" ELSE ssock[c]]
       \/ /\ server_socket = "listening"
          /\ spc = "accept"
          /\ server_socket' = "detached"
          /\ UNCHANGED <<backlog, ssock>>
    /\ UNCHANGED <<running, spc, handlerVars, wrote, touched, c2s, s2c, cend, kind, dbVars,
                   clientVars, sentBytes, envVars, apiVars, message_id>>

(***************************************************************************)
(* MockMLLPTarget._handle_client and _read_mllp_message, one thread per    *)
(* accepted connection h.                                                  *)
(***************************************************************************)
\* line 96: if message
AfterReadNever(msg) == "finally"

AfterReadNotNone(msg) == IF msg.present THEN "process" ELSE "finally"

AfterReadSkipClose(msg) == IF msg.present /\ msg.val # <<>> THEN "process" ELSE "done"

AfterRead(msg) == IF msg.present /\ msg.val # <<>> THEN "process" ELSE "finally"

\* line 127: if byte == self.MLLP_START
IsStartAny(byte) == TRUE

IsStart(byte) == <<byte>> = MLLP_START

\* A recv(1) of handler h can return: a byte is waiting or the peer has closed.
CanRecv(sock) == ssock[sock] # "open" \/ c2s[sock] # <<>> \/ cend[sock] = "closed"

\* lines 123-128: SEEKING_START, one recv(1).
HandlerSeek(h) ==
    /\ hpc[h] = "seek"
    /\ LET sock == ClientSocketOf(h)
       IN  /\ CanRecv(sock)
           /\ touched' = [touched EXCEPT ![sock] = @ \cup {h}]
           /\ IF ssock[sock] = "open" /\ c2s[sock] # <<>>
              THEN /\ c2s' = [c2s EXCEPT ![sock] = Tail(@)]
                   /\ hpc' = [hpc EXCEPT ![h] =
                                 IF IsStart(Head(c2s[sock])) THEN "accum" ELSE "seek"]
                   /\ UNCHANGED <<message, hexc>>
              ELSE \* b'' (line 126) or an exception (lines 146-148): None
                   /\ \E exc \in IF ssock[sock] = "open" THEN {"none", "read"} ELSE {"read"} :
                          hexc' = [hexc EXCEPT ![h] = exc]
                   /\ message' = [message EXCEPT ![h] = NoneVal]
                   /\ hpc' = [hpc EXCEPT ![h] = AfterRead(NoneVal)]
                   /\ UNCHANGED c2s
    /\ UNCHANGED <<serverVars, backlog, buffer, wrote, s2c, ssock, cend, kind, dbVars, clientVars,
                   sentBytes, envVars, apiVars, message_id>>

\* lines 131-144: ACCUMULATING, one recv(1).
HandlerAccum(h) ==
    /\ hpc[h] = "accum"
    /\ LET sock == ClientSocketOf(h)
       IN  /\ CanRecv(sock)
           /\ touched' = [touched EXCEPT ![sock] = @ \cup {h}]
           /\ IF ssock[sock] = "open" /\ c2s[sock] # <<>>
              THEN LET buf == Append(buffer[h], Head(c2s[sock]))
                   IN  /\ c2s' = [c2s EXCEPT ![sock] = Tail(@)]
                       /\ buffer' = [buffer EXCEPT ![h] = buf]
                       /\ IF EndsWith(buf, MLLP_END)
                          THEN /\ message' = [message EXCEPT ![h] = Some(ReaderMessage(buf))]
                               /\ hpc' = [hpc EXCEPT ![h] = AfterRead(Some(ReaderMessage(buf)))]
                          ELSE UNCHANGED <<message, hpc>>
                       /\ UNCHANGED hexc
              ELSE /\ \E exc \in IF ssock[sock] = "open" THEN {"none", "read"} ELSE {"read"} :
                          hexc' = [hexc EXCEPT ![h] = exc]
                   /\ message' = [message EXCEPT ![h] = NoneVal]
                   /\ hpc' = [hpc EXCEPT ![h] = AfterRead(NoneVal)]
                   /\ UNCHANGED <<c2s, buffer>>
    /\ UNCHANGED <<serverVars, backlog, wrote, s2c, ssock, cend, kind, dbVars, clientVars,
                   sentBytes, envVars, apiVars, message_id>>

\* lines 90-108: one read, one processing, then the finally clause; the
\* handler has no loop.
AfterProcessReadNext == "seek"

AfterProcess == "finally"

\* line 101, _process_message: write the framed acknowledgment.  The write
\* reaches the peer; once the peer has closed it may raise instead, and the
\* exception is caught by lines 103-104.
HandlerProcess(h) ==
    /\ hpc[h] = "process"
    /\ LET sock == ClientSocketOf(h)
           frame == AckFrame(message[h].val)
       IN  /\ touched' = [touched EXCEPT ![sock] = @ \cup {h}]
           /\ wrote' = [wrote EXCEPT ![sock] = Append(@, frame)]
           /\ \/ /\ ssock[sock] = "open"
                 /\ s2c' = [s2c EXCEPT ![sock] = @ \o frame]
                 /\ UNCHANGED hexc
              \/ /\ ssock[sock] # "open" \/ cend[sock] = "closed"
                 /\ hexc' = [hexc EXCEPT ![h] = "write"]
                 /\ UNCHANGED s2c
    /\ hpc' = [hpc EXCEPT ![h] = AfterProcess]
    /\ UNCHANGED <<serverVars, backlog, buffer, message, c2s, ssock, cend, kind, dbVars,
                   clientVars, sentBytes, envVars, apiVars, message_id>>

\* lines 106-108: finally: client_socket.close()
HandlerClose(h) ==
    /\ hpc[h] = "finally"
    /\ LET sock == ClientSocketOf(h)
       IN  /\ touched' = [touched EXCEPT ![sock] = @ \cup {h}]
           /\ ssock' = [ssock EXCEPT ![sock] = "closed"]
    /\ hpc' = [hpc EXCEPT ![h] = "done"]
    /\ UNCHANGED <<serverVars, backlog, buffer, message, hexc, wrote, c2s, s2c, cend,
                   kind, dbVars, clientVars, sentBytes, envVars, apiVars, message_id>>

(***************************************************************************)
(* MLLPClient.                                                             *)
(***************************************************************************)
Result(success, ack, error) == [success |-> success, ack |-> ack, error |-> error]

\* send_message lines 58-69: the tuple returned for what _receive_response
\* gave back (None, or the bytes read).
SendResultNoPayload(resp) ==
    IF resp.present /\ resp.val # <<>>
    THEN IF IsPositiveAck(UnwrapMllp(resp.val))
         THEN Result(TRUE, Some(UnwrapMllp(resp.val)), Absent)
         ELSE Result(FALSE, NoneVal, "Negative ACK received")
    ELSE Result(FALSE, NoneVal, "No ACK received")

SendResultEmptyIsNegative(resp) ==
    IF resp.present
    THEN IF IsPositiveAck(UnwrapMllp(resp.val))
         THEN Result(TRUE, Some(UnwrapMllp(resp.val)), Absent)
         ELSE Result(FALSE, Some(UnwrapMllp(resp.val)), "Negative ACK received")
    ELSE Result(FALSE, NoneVal, "No ACK received")

SendResultErrorOnSuccess(resp) ==
    IF resp.present /\ resp.val # <<>>
    THEN IF IsPositiveAck(UnwrapMllp(resp.val))
         THEN Result(TRUE, Some(UnwrapMllp(resp.val)), "Positive ACK received")
         ELSE Result(FALSE, Some(UnwrapMllp(resp.val)), "Negative ACK received")
    ELSE Result(FALSE, NoneVal, "No ACK received")

SendResult(resp) ==
    IF resp.present /\ resp.val # <<>>
    THEN IF IsPositiveAck(UnwrapMllp(resp.val))
         THEN Result(TRUE, Some(UnwrapMllp(resp.val)), Absent)
         ELSE Result(FALSE, Some(UnwrapMllp(resp.val)), "Negative ACK received")
    ELSE Result(FALSE, NoneVal, "No ACK received")

\* An except clause catches the exception classes it names; Exception
\* names every class a transport or framing failure raises.
Catches(handlers, exc) == \E i \in 1..Len(handlers) : handlers[i] \in {"Exception", exc}

NoHandlers == <<>>

\* line 32
ConnectHandlers == <<"Exception">>

\* lines 71 and 75
SendMessageHandlers == <<"socket.timeout", "Exception">>

\* line 93
ReceiveHandlers == <<"Exception">>

\* line 125
CloseHandlers == <<"Exception">>

\* send_message lines 71-78: the tuple returned for an exception that
\* reaches the handlers of send_message.
SendMessageExcept(exc) ==
    IF SendMessageHandlers[CHOOSE i \in 1..Len(SendMessageHandlers) :
                               /\ SendMessageHandlers[i] \in {"Exception", exc}
                               /\ \A j \in 1..(i - 1) :
                                     SendMessageHandlers[j] \notin {"Exception", exc}]
           = "socket.timeout"
    THEN Result(FALSE, NoneVal, "Timeout waiting for ACK")
    ELSE Result(FALSE, NoneVal, "Error sending message")

\* connect(), lines 26-34, on connection c: the socket object is stored
\* before the TCP connect is tried, and stays stored when that fails.
\* The connect succeeds exactly when the server is listening.  Index c
\* stands from then on for the new connection of client c.
Connect(c, ok) ==
    /\ ok = Accepting(server_socket)
    /\ created' = [created EXCEPT ![c] = @ + 1]
    /\ cycles' = [cycles EXCEPT ![c] = 0]
    /\ raised' = [raised EXCEPT ![c] = @ \/ (~ok /\ ~Catches(ConnectHandlers, "OSError"))]
    /\ csock' = [csock EXCEPT ![c] = IF ok THEN "connected" ELSE "unconnected"]
    /\ cend' = [cend EXCEPT ![c] = IF ok THEN "open" ELSE @]
    /\ ssock' = [ssock EXCEPT ![c] = IF ok THEN "pending" ELSE @]
    /\ backlog' = IF ok THEN Append(SelectSeq(backlog, LAMBDA x : x # c), c) ELSE backlog
    /\ c2s' = [c2s EXCEPT ![c] = IF ok THEN <<>> ELSE @]
    /\ s2c' = [s2c EXCEPT ![c] = IF ok THEN <<>> ELSE @]
    /\ sentBytes' = [sentBytes EXCEPT ![c] = IF ok THEN <<>> ELSE @]
    /\ envSent' = IF ok THEN 0 ELSE envSent

\* __enter__, lines 130-132: connect, whatever it returns.
Enter(c) ==
    /\ kind[c] = "client"
    /\ cpc[c] = "new"
    /\ \E ok \in BOOLEAN :
          /\ Connect(c, ok)
          /\ cfail' = [cfail EXCEPT ![c] = IF ok THEN @ ELSE "connect"]
    /\ cpc' = [cpc EXCEPT ![c] = "entered"]
    /\ UNCHANGED <<serverVars, handlerVars, wrote, touched, kind, dbVars, cmsg, response, recvs, result,
                   envResp, released, calls, message_id>>

\* send_message lines 43-46: connect first when no socket is held.
SendMessageBegin(c) ==
    /\ kind[c] = "client"
    /\ cpc[c] \in {"new", "entered", "idle"}
    /\ IF csock[c] = "none"
       THEN \E ok \in BOOLEAN :
               /\ Connect(c, ok)
               /\ cfail' = [cfail EXCEPT ![c] = IF ok THEN @ ELSE "connect"]
               /\ cpc' = [cpc EXCEPT ![c] = IF ok THEN "send" ELSE "returned"]
               /\ result' = [result EXCEPT ![c] =
                                IF ok THEN @
                                ELSE Result(FALSE, NoneVal, "Failed to connect to server")]
       ELSE /\ cpc' = [cpc EXCEPT ![c] = "send"]
            /\ UNCHANGED <<csock, cend, ssock, backlog, cfail, result, c2s, s2c, sentBytes,
                           envSent, created, cycles, raised>>
    /\ UNCHANGED <<serverVars, handlerVars, wrote, touched, kind, dbVars, cmsg, response, recvs, envResp,
                   released, calls, message_id>>

\* send_message lines 49-52: sendall of the framed message.  It raises
\* on a socket that was never connected or that the peer has reset
\* (lines 75-78), and may time out (lines 71-74).
SendMessageSend(c) ==
    /\ cpc[c] = "send"
    /\ cycles' = [cycles EXCEPT ![c] = @ + 1]
    /\ \E out \in {"ok", "timeout", "error"} :
          /\ out = "ok" => csock[c] = "connected"
          /\ out = "timeout" => csock[c] = "connected"
          /\ out = "error" => (csock[c] # "connected" \/ ssock[c] = "closed")
          /\ IF out = "ok"
             THEN /\ c2s' = [c2s EXCEPT ![c] = @ \o WrapMllp(cmsg[c])]
                  /\ sentBytes' = [sentBytes EXCEPT ![c] = @ \o WrapMllp(cmsg[c])]
                  /\ cpc' = [cpc EXCEPT ![c] = "recv"]
                  \* _receive_response line 83
                  /\ response' = [response EXCEPT ![c] = <<>>]
                  /\ recvs' = [recvs EXCEPT ![c] = 0]
                  /\ UNCHANGED <<result, cfail, raised>>
             ELSE LET exc == IF out = "timeout" THEN "socket.timeout" ELSE "OSError"
                  IN  /\ result' = [result EXCEPT ![c] =
                                       IF Catches(SendMessageHandlers, exc)
                                       THEN SendMessageExcept(exc) ELSE @]
                      /\ raised' = [raised EXCEPT ![c] =
                                       @ \/ ~Catches(SendMessageHandlers, exc)]
                      /\ cfail' = [cfail EXCEPT ![c] = "send_" \o out]
                      /\ cpc' = [cpc EXCEPT ![c] = "returned"]
                      /\ UNCHANGED <<c2s, sentBytes, response, recvs>>
    /\ UNCHANGED <<serverVars, backlog, handlerVars, wrote, touched, s2c, ssock, cend,
                   kind, dbVars, csock, cmsg, envVars, created, released, calls, message_id>>

\* _receive_response lines 88-91: the end sentinel pair is looked for in
\* all that has been received, the new chunk included.
ResponseCompleteInChunk(received, chunk) ==
    Contains(chunk, <<END_OF_BLOCK, CARRIAGE_RETURN>>)

ResponseComplete(received, chunk) ==
    Contains(received \o chunk, <<END_OF_BLOCK, CARRIAGE_RETURN>>)

\* _receive_response lines 84-91, one recv(4096), followed (when the loop
\* ends) by lines 58-69 of send_message.
SendMessageRecv(c) ==
    /\ cpc[c] = "recv"
    /\ recvs' = [recvs EXCEPT ![c] = @ + 1]
    /\ IF s2c[c] # <<>>
       THEN LET resp == response[c] \o s2c[c]
            IN  /\ s2c' = [s2c EXCEPT ![c] = <<>>]
                /\ response' = [response EXCEPT ![c] = resp]
                /\ IF ResponseComplete(response[c], s2c[c])
                   THEN /\ result' = [result EXCEPT ![c] = SendResult(Some(resp))]
                        /\ cpc' = [cpc EXCEPT ![c] = "returned"]
                   ELSE UNCHANGED <<result, cpc>>
                /\ UNCHANGED <<cfail, raised>>
       ELSE /\ UNCHANGED <<s2c, response>>
            /\ cpc' = [cpc EXCEPT ![c] = "returned"]
            /\ \E out \in {"eof", "recv_timeout", "recv_error"} :
                  /\ out = "eof" => ssock[c] = "closed"
                  /\ out = "recv_timeout" => ssock[c] # "closed"
                  /\ out = "recv_error" => ssock[c] = "closed"
                  /\ cfail' = [cfail EXCEPT ![c] = IF out = "eof" THEN @ ELSE out]
                  /\ LET exc == IF out = "recv_timeout" THEN "socket.timeout" ELSE "OSError"
                     IN  \* lines 93-95: any exception, a timeout included, gives None
                         /\ result' = [result EXCEPT ![c] =
                                          IF out = "eof" THEN SendResult(Some(response[c]))
                                          ELSE IF Catches(ReceiveHandlers, exc)
                                               THEN SendResult(NoneVal)
                                          ELSE IF Catches(SendMessageHandlers, exc)
                                               THEN SendMessageExcept(exc)
                                          ELSE @]
                         /\ raised' = [raised EXCEPT ![c] =
                                          @ \/ (/\ out # "eof"
                                                /\ ~Catches(ReceiveHandlers, exc)
                                                /\ ~Catches(SendMessageHandlers, exc))]
    /\ UNCHANGED <<serverVars, backlog, handlerVars, wrote, touched, c2s, ssock, cend,
                   kind, dbVars, csock, cmsg, sentBytes, envVars, created, released, cycles, calls,
                   message_id>>

\* line 121: if self.socket
HoldsSocketConnected(sock) == sock = "connected"

HoldsSocket(sock) == sock # "none"

\* line 128: finally: self.socket = None
SocketAfterCloseKept == "closed"

SocketAfterClose == "none"

\* close(), lines 119-128: socket.close() releases the descriptor also when
\* it raises; the exception is caught and self.socket is cleared.
CloseSocket(c) ==
    /\ IF HoldsSocket(csock[c])
       THEN /\ \E fails \in BOOLEAN :
                  raised' = [raised EXCEPT ![c] = @ \/ (fails /\ ~Catches(CloseHandlers, "OSError"))]
            /\ released' = [released EXCEPT ![c] = @ + 1]
            /\ csock' = [csock EXCEPT ![c] = SocketAfterClose]
            /\ cend' = [cend EXCEPT ![c] = IF csock[c] = "connected" THEN "closed" ELSE @]
       ELSE UNCHANGED <<raised, released, csock, cend>>

\* close(), called by __exit__ (line 135) once send_message has returned, or
\* by the caller.
Close(c) ==
    /\ kind[c] = "client"
    /\ cpc[c] \in {"returned", "idle"}
    /\ CloseSocket(c)
    /\ cpc' = [cpc EXCEPT ![c] = "exited"]
    /\ UNCHANGED <<serverVars, backlog, handlerVars, wrote, touched, c2s, s2c, ssock,
                   kind, dbVars, cmsg, sentBytes, response, recvs, result, cfail, envVars, created, cycles,
                   calls, message_id>>

\* The caller of the client is about to make a further call on it.
Caller(c) ==
    /\ kind[c] = "client"
    /\ cpc[c] \in {"new", "entered", "returned", "exited"}
    /\ calls[c] < MaxCalls
    /\ calls' = [calls EXCEPT ![c] = @ + 1]
    /\ cpc' = [cpc EXCEPT ![c] = "idle"]
    /\ UNCHANGED <<serverVars, backlog, handlerVars, wrote, touched, c2s, s2c, ssock, cend,
                   kind, dbVars, csock, cmsg, sentBytes, response, recvs, result, cfail, envVars, created,
                   released, cycles, raised, message_id>>

\* connect(), lines 24-34, called by the caller: the socket held before,
\* if any, is dropped without being closed.
CallConnect(c) ==
    /\ kind[c] = "client"
    /\ cpc[c] = "idle"
    /\ \E ok \in BOOLEAN :
          /\ Connect(c, ok)
          /\ cfail' = [cfail EXCEPT ![c] = IF ok THEN @ ELSE "connect"]
    /\ cpc' = [cpc EXCEPT ![c] = "returned"]
    /\ UNCHANGED <<serverVars, handlerVars, wrote, touched, kind, dbVars, cmsg, response, recvs, result,
                   envResp, released, calls, message_id>>

\* __exit__, lines 134-135, when the body of the with statement ends before
\* send_message was called (an early return, an exception in the body).
Exit(c) ==
    /\ kind[c] = "client"
    /\ cpc[c] = "entered"
    /\ CloseSocket(c)
    /\ cpc' = [cpc EXCEPT ![c] = "exited"]
    /\ UNCHANGED <<serverVars, backlog, handlerVars, wrote, touched, c2s, s2c, ssock,
                   kind, dbVars, cmsg, sentBytes, response, recvs, result, cfail, envVars, created, cycles,
                   calls, message_id>>

(***************************************************************************)
(* TestRunner._execute_test; the test cases are executed one after the     *)
(* other, each with a client of its own.  Index c stands for the client    *)
(* and the connection of the test case being executed.                     *)
(***************************************************************************)
\* line 108: with MLLPClient(...) as client
RunnerEnter(c) ==
    /\ cpc[c] = "new"
    /\ Enter(c)

\* line 109: client.send_message(test_case.hl7_message)
RunnerSend(c) ==
    /\ cpc[c] = "entered"
    /\ SendMessageBegin(c)

\* line 114: if not success: ... return result
GoesOnToQueryAlways(success) == TRUE

GoesOnToQuery(success) == success

\* lines 114-122 and 142: after the scope, return when the send failed
\* (result.passed stays False), otherwise extract the message id for the
\* routing-log query.
RunnerFinish(c) ==
    /\ kind[c] = "client"
    /\ cpc[c] = "exited"
    /\ message_id' = [message_id EXCEPT ![c] =
                          IF GoesOnToQuery(result[c].success)
                          THEN Some(ExtractMessageId(cmsg[c])) ELSE @]
    /\ cpc' = [cpc EXCEPT ![c] =
                  IF GoesOnToQuery(result[c].success) THEN "dbenter" ELSE "finished"]
    /\ UNCHANGED <<serverVars, backlog, handlerVars, wrote, touched, c2s, s2c, ssock, cend,
                   kind, dbVars, csock, cmsg, sentBytes, response, recvs, result, cfail,
                   envVars, apiVars>>

\* RoutingLogQuery.connect, lines 18-32: every failure is caught and gives
\* False, with self.connection left as it was.
DbConnect(ok) == IF ok THEN "open" ELSE connection

\* line 144, RoutingLogQuery.__enter__ (lines 109-111): connect, whatever
\* it returns.
DbEnter(c) ==
    /\ kind[c] = "client"
    /\ cpc[c] = "dbenter"
    /\ \E ok \in BOOLEAN : connection' = DbConnect(ok)
    /\ cpc' = [cpc EXCEPT ![c] = "dbquery"]
    /\ UNCHANGED <<serverVars, backlog, handlerVars, wrote, touched, c2s, s2c, ssock, cend,
                   kind, routing_data, passed, queries, csock, cmsg, sentBytes, response,
                   recvs, result, cfail, envVars, apiVars, message_id>>

\* query_routing_log lines 94-96: the finally clause reads the local
\* variable cursor, which is bound only once line 50 has completed; reading
\* it unbound raises UnboundLocalError, which replaces the pending return.
FinallyCursor(cursor_bound, returned) == IF cursor_bound THEN returned ELSE "raised"

\* line 145, query_routing_log (lines 34-96): connect when no connection
\* is held (lines 46-48), make a cursor (line 50), execute and fetch one
\* row (lines 71-72); an exception of these is caught by lines 91-93.
DbQuery(c) ==
    /\ kind[c] = "client"
    /\ cpc[c] = "dbquery"
    /\ queries' = queries + 1
    /\ \E ok \in BOOLEAN : \E cursor_ok \in BOOLEAN : \E fetched \in {"row", "no row", "error"} :
          LET conn == IF connection = "none" THEN DbConnect(ok) ELSE connection
          IN  /\ connection' = conn
              \* choices that are not used are fixed, so that each outcome
              \* is one step
              /\ conn = "none" => (cursor_ok /\ fetched = "row")
              /\ ~cursor_ok => fetched = "row"
              /\ routing_data' =
                    IF conn = "none" THEN FinallyCursor(FALSE, "none")
                    ELSE IF ~cursor_ok THEN FinallyCursor(FALSE, "none")
                    ELSE FinallyCursor(TRUE, IF fetched = "row" THEN "found" ELSE "none")
    /\ cpc' = [cpc EXCEPT ![c] = "dbexit"]
    /\ UNCHANGED <<serverVars, backlog, handlerVars, wrote, touched, c2s, s2c, ssock, cend,
                   kind, passed, csock, cmsg, sentBytes, response, recvs, result, cfail,
                   envVars, apiVars, message_id>>

\* line 144, RoutingLogQuery.__exit__ (lines 113-114) and close (lines
\* 98-107): the connection is closed and forgotten.
DbExit(c) ==
    /\ kind[c] = "client"
    /\ cpc[c] = "dbexit"
    /\ connection' = "none"
    /\ cpc' = [cpc EXCEPT ![c] = "assert"]
    /\ UNCHANGED <<serverVars, backlog, handlerVars, wrote, touched, c2s, s2c, ssock, cend,
                   kind, routing_data, passed, queries, csock, cmsg, sentBytes, response,
                   recvs, result, cfail, envVars, apiVars, message_id>>

\* lines 147-208: without routing data the test case has failed (lines
\* 158-166, or lines 198-205 when the query raised); with it the test case
\* passes when host, port and status are the expected ones.
RunnerAssert(c) ==
    /\ kind[c] = "client"
    /\ cpc[c] = "assert"
    /\ \E matches \in BOOLEAN : passed' = (routing_data = "found" /\ matches)
    /\ cpc' = [cpc EXCEPT ![c] = "finished"]
    /\ UNCHANGED <<serverVars, backlog, handlerVars, wrote, touched, c2s, s2c, ssock, cend,
                   kind, connection, routing_data, queries, csock, cmsg, sentBytes, response,
                   recvs, result, cfail, envVars, apiVars, message_id>>

\* The next test case: line 108 constructs a new MLLPClient (__init__,
\* line 22: self.socket = None) for the next message; the client of the
\* test case before, and whatever it still holds, is dropped.
RunnerNextTest(c) ==
    /\ kind[c] = "client"
    /\ cpc[c] = "finished"
    /\ calls[c] < MaxTests - 1
    /\ calls' = [calls EXCEPT ![c] = @ + 1]
    /\ \E m \in TestMessages : cmsg' = [cmsg EXCEPT ![c] = m]
    /\ cpc' = [cpc EXCEPT ![c] = "new"]
    /\ csock' = [csock EXCEPT ![c] = "none"]
    /\ cycles' = [cycles EXCEPT ![c] = 0]
    /\ response' = [response EXCEPT ![c] = <<>>]
    /\ recvs' = [recvs EXCEPT ![c] = 0]
    /\ result' = [result EXCEPT ![c] = NoResult]
    /\ cfail' = [cfail EXCEPT ![c] = "none"]
    /\ message_id' = [message_id EXCEPT ![c] = NoneVal]
    /\ c2s' = [c2s EXCEPT ![c] = <<>>]
    /\ s2c' = [s2c EXCEPT ![c] = <<>>]
    /\ sentBytes' = [sentBytes EXCEPT ![c] = <<>>]
    /\ ssock' = [ssock EXCEPT ![c] = "none"]
    /\ cend' = [cend EXCEPT ![c] = "none"]
    /\ envSent' = 0
    /\ connection' = "none"
    /\ routing_data' = "unset"
    /\ passed' = FALSE
    /\ queries' = 0
    /\ UNCHANGED <<serverVars, backlog, handlerVars, wrote, touched, kind, envResp,
                   created, released, raised>>

(***************************************************************************)
(* A raw peer: connects, sends a byte string, closes.                      *)
(***************************************************************************)
RawSend(c) ==
    /\ kind[c] = "raw"
    /\ cpc[c] = "new"
    /\ Accepting(server_socket)
    /\ \E script \in RawScripts :
          /\ c2s' = [c2s EXCEPT ![c] = script]
          /\ sentBytes' = [sentBytes EXCEPT ![c] = script]
    /\ cend' = [cend EXCEPT ![c] = "open"]
    /\ ssock' = [ssock EXCEPT ![c] = "pending"]
    /\ backlog' = Append(backlog, c)
    /\ cpc' = [cpc EXCEPT ![c] = "rawsent"]
    /\ UNCHANGED <<serverVars, handlerVars, wrote, touched, s2c, kind, dbVars, csock, cmsg,
                   response, recvs, result, cfail, envVars, apiVars, message_id>>

\* A peer that gives up: it connects, sends a frame, whole or cut short, and
\* closes at once, before the handler has read or answered it.
AbortSend(c) ==
    /\ kind[c] = "raw"
    /\ cpc[c] = "new"
    /\ Accepting(server_socket)
    /\ \E script \in AbortScripts :
          /\ c2s' = [c2s EXCEPT ![c] = script]
          /\ sentBytes' = [sentBytes EXCEPT ![c] = script]
    /\ cend' = [cend EXCEPT ![c] = "closed"]
    /\ ssock' = [ssock EXCEPT ![c] = "pending"]
    /\ backlog' = Append(backlog, c)
    /\ cpc' = [cpc EXCEPT ![c] = "exited"]
    /\ UNCHANGED <<serverVars, handlerVars, wrote, touched, s2c, kind, dbVars, csock, cmsg,
                   response, recvs, result, cfail, envVars, apiVars, message_id>>

RawClose(c) ==
    /\ kind[c] = "raw"
    /\ cpc[c] = "rawsent"
    /\ cend' = [cend EXCEPT ![c] = "closed"]
    /\ cpc' = [cpc EXCEPT ![c] = "exited"]
    /\ UNCHANGED <<serverVars, backlog, handlerVars, wrote, touched, c2s, s2c, ssock,
                   kind, dbVars, csock, cmsg, sentBytes, response, recvs, result, cfail, envVars, apiVars, message_id>>

\* A silent peer: connects, sends nothing and keeps the connection open.
SilentConnect(c) ==
    /\ kind[c] = "silent"
    /\ cpc[c] = "new"
    /\ Accepting(server_socket)
    /\ cend' = [cend EXCEPT ![c] = "open"]
    /\ ssock' = [ssock EXCEPT ![c] = "pending"]
    /\ backlog' = Append(backlog, c)
    /\ cpc' = [cpc EXCEPT ![c] = "silent"]
    /\ UNCHANGED <<serverVars, handlerVars, wrote, touched, c2s, s2c, kind, dbVars, csock, cmsg,
                   sentBytes, response, recvs, result, cfail, envVars, apiVars, message_id>>

(***************************************************************************)
(* The environment's server (any MLLP peer of the client): it writes its   *)
(* answer in at most two pieces and may close at any time.                 *)
(***************************************************************************)
EnvWrite(c) ==
    /\ ssock[c] = "pending"
    /\ envSent < Len(envResp)
    /\ \E k \in 1..(Len(envResp) - envSent) :
          /\ envSent > 0 => k = Len(envResp) - envSent
          /\ s2c' = [s2c EXCEPT ![c] = @ \o SubSeq(envResp, envSent + 1, envSent + k)]
          /\ envSent' = envSent + k
    /\ UNCHANGED <<serverVars, backlog, handlerVars, wrote, touched, c2s, ssock, cend,
                   kind, dbVars, clientVars, sentBytes, envResp, apiVars, message_id>>

EnvClose(c) ==
    /\ ssock[c] = "pending"
    /\ ssock' = [ssock EXCEPT ![c] = "closed"]
    /\ UNCHANGED <<serverVars, backlog, handlerVars, wrote, touched, c2s, s2c, cend,
                   kind, dbVars, clientVars, sentBytes, envVars, apiVars, message_id>>

(***************************************************************************)
(* Specifications.                                                         *)
(***************************************************************************)
StartNext ==
    \/ StartSocket
    \/ StartBind
    \/ StartListen
    \/ StartSetRunning
    \/ LoopTest
    \/ Accept

StopNext ==
    \/ AcceptRaise
    \/ StopClear
    \/ StopClose

HandlerNext(h) ==
    \/ HandlerSeek(h)
    \/ HandlerAccum(h)
    \/ HandlerProcess(h)
    \/ HandlerClose(h)

ClientNext(c) ==
    \/ Enter(c)
    \/ SendMessageBegin(c)
    \/ SendMessageSend(c)
    \/ SendMessageRecv(c)
    \/ Close(c)

\* The mock target, started and not stopped, with NConn clients that each
\* send a message with their own control identifier.
Next ==
    \/ StartNext
    \/ \E h \in Conns : HandlerNext(h)
    \/ \E c \in Conns : ClientNext(c)

Spec == Init /\ [][Next]_vars

\* The mock target with one raw peer.
InitReader ==
    InitWith([c \in Conns |-> IF c = 1 THEN "raw" ELSE "absent"],
             [c \in Conns |-> <<>>], "none", "init", <<>>)

NextReader ==
    \/ StartNext
    \/ StopNext
    \/ \E h \in Conns : HandlerNext(h)
    \/ \E c \in Conns : RawSend(c) \/ RawClose(c)

SpecReader == InitReader /\ [][NextReader]_vars

\* One client against the environment's server.
InitClient ==
    \E sock \in {"listening", "closed"} : \E resp \in Responses :
        InitWith([c \in Conns |-> IF c = 1 THEN "client" ELSE "absent"],
                 [c \in Conns |-> GoodMsg(c)], sock, "env", resp)

NextClient ==
    \/ \E c \in Conns : ClientNext(c)
    \/ \E c \in Conns : EnvWrite(c) \/ EnvClose(c)

SpecClient == InitClient /\ [][NextClient]_vars

\* The mock target, started and stopped at any time, with one client.
InitE2E ==
    \E m \in Messages(1) :
        InitWith([c \in Conns |-> IF c = 1 THEN "client" ELSE "absent"],
                 [c \in Conns |-> IF c = 1 THEN m ELSE <<>>], "none", "init", <<>>)

NextE2E ==
    \/ StartNext
    \/ StopNext
    \/ \E h \in Conns : HandlerNext(h)
    \/ \E c \in Conns : ClientNext(c)

SpecE2E == InitE2E /\ [][NextE2E]_vars

\* The mock target, started and not stopped, with one client that sends any
\* of the payloads.
InitFrame ==
    \E m \in Payloads :
        InitWith([c \in Conns |-> IF c = 1 THEN "client" ELSE "absent"],
                 [c \in Conns |-> IF c = 1 THEN m ELSE <<>>], "none", "init", <<>>)

NextFrame ==
    \/ StartNext
    \/ \E h \in Conns : HandlerNext(h)
    \/ \E c \in Conns : ClientNext(c)

SpecFrame == InitFrame /\ [][NextFrame]_vars

\* The test runner executing up to MaxTests test cases against the
\* environment's server, which is up or down for the whole run.
InitRunner ==
    \E sock \in {"listening", "closed"} : \E resp \in RunnerResponses :
        \E m \in TestMessages :
            InitWith([c \in Conns |-> IF c = 1 THEN "client" ELSE "absent"],
                     [c \in Conns |-> IF c = 1 THEN m ELSE <<>>], sock, "env", resp)

RunnerNext(c) ==
    \/ RunnerEnter(c)
    \/ RunnerSend(c)
    \/ SendMessageSend(c)
    \/ SendMessageRecv(c)
    \/ Close(c)
    \/ Exit(c)
    \/ RunnerFinish(c)
    \/ DbEnter(c)
    \/ DbQuery(c)
    \/ DbExit(c)
    \/ RunnerAssert(c)
    \/ RunnerNextTest(c)

NextRunner ==
    \/ \E c \in Conns : RunnerNext(c)
    \/ \E c \in Conns : EnvWrite(c) \/ EnvClose(c)

SpecRunner == InitRunner /\ [][NextRunner]_vars

\* One client, used by its caller for any sequence of up to MaxCalls further
\* calls of connect, send_message and close, against the environment's
\* server.
InitApi ==
    \E sock \in {"listening", "closed"} : \E resp \in RunnerResponses :
        InitWith([c \in Conns |-> IF c = 1 THEN "client" ELSE "absent"],
                 [c \in Conns |-> GoodMsg(c)], sock, "env", resp)

NextApi ==
    \/ \E c \in Conns : ClientNext(c)
    \/ \E c \in Conns : Caller(c) \/ CallConnect(c) \/ Exit(c)
    \/ \E c \in Conns : EnvWrite(c) \/ EnvClose(c)

SpecApi == InitApi /\ [][NextApi]_vars

\* The mock target, started and not stopped, with NConn - 1 silent peers and
\* one client.  The thread of start(), the handler threads and the client
\* keep running; a silent peer may connect or not.
InitAccept ==
    InitWith([c \in Conns |-> IF c = NConn THEN "client" ELSE "silent"],
             [c \in Conns |-> GoodMsg(c)], "none", "init", <<>>)

NextAccept ==
    \/ StartNext
    \/ \E h \in Conns : HandlerNext(h)
    \/ \E c \in Conns : ClientNext(c)
    \/ \E c \in Conns : SilentConnect(c)

SpecAccept ==
    /\ InitAccept
    /\ [][NextAccept]_vars
    /\ WF_vars(StartNext)
    /\ \A h \in Conns : WF_vars(HandlerNext(h))
    /\ \A c \in Conns : WF_vars(ClientNext(c))

\* The mock target, started and not stopped, with NConn - 1 peers that give
\* up and one client.  The thread of start(), the handler threads and the
\* client keep running; a peer that gives up may never connect.
InitConfine ==
    InitWith([c \in Conns |-> IF c = NConn THEN "client" ELSE "raw"],
             [c \in Conns |-> ShortMsg], "none", "init", <<>>)

NextConfine ==
    \/ StartNext
    \/ \E h \in Conns : HandlerNext(h)
    \/ \E c \in Conns : ClientNext(c)
    \/ \E c \in Conns : AbortSend(c)

SpecConfine ==
    /\ InitConfine
    /\ [][NextConfine]_vars
    /\ WF_vars(StartNext)
    /\ \A h \in Conns : WF_vars(HandlerNext(h))
    /\ \A c \in Conns : WF_vars(ClientNext(c))

\* The mock target, started and stopped at any time, whose accept and thread
\* start may fail, with NConn - 1 silent peers and one client.
LoopFailNext ==
    \/ AcceptFail
    \/ DispatchRaise

NextLoop ==
    \/ StartNext
    \/ StopNext
    \/ LoopFailNext
    \/ \E h \in Conns : HandlerNext(h)
    \/ \E c \in Conns : ClientNext(c)
    \/ \E c \in Conns : SilentConnect(c)

SpecLoop == InitAccept /\ [][NextLoop]_vars

(***************************************************************************)
(* Properties.                                                             *)
(***************************************************************************)
Returned(c) == kind[c] = "client" /\ cpc[c] \in {"returned", "exited"}

Truthy(msg) == msg.present /\ msg.val # <<>>

\* MSA|AA|<id>
PositiveAckText(id) == <<77, 83, 65, 124, 65, 65, 124>> \o id

FramedBytes(payload) == <<11>> \o payload \o <<28, 13>>

\* C1: with the clients of all connections served concurrently, only the
\* handler started for a connection ever reads, writes or closes that
\* connection's socket; every acknowledgment written on a connection carries
\* the control identifier of that connection's message; a client that
\* returns without a transport failure has received the positive
\* acknowledgment with its own control identifier.
C1_NoCrossTalk ==
    \A c \in Conns :
        /\ touched[c] \subseteq {c}
        /\ \A i \in 1..Len(wrote[c]) :
              wrote[c][i] = FramedBytes(PositiveAckText(CtrlIdOf(c)))
        /\ (Returned(c) /\ result[c].ack.present)
              => result[c].ack.val = PositiveAckText(CtrlIdOf(c))
        /\ (Returned(c) /\ cfail[c] = "none")
              => result[c] = Result(TRUE, Some(PositiveAckText(CtrlIdOf(c))), Absent)

\* Every client has its acknowledgment while every connection is still open
\* at the client.
C1_Witness ==
    \A c \in Conns :
        /\ cpc[c] = "returned"
        /\ cend[c] = "open"
        /\ result[c].success
        /\ hpc[c] = "done"

\* C2: once a handler whose reader returned a non-empty message has closed
\* its connection, it has passed exactly one byte string to sendall on that
\* connection: the MLLP frame of MSA|AA|<control identifier of the message>;
\* and no handler ever writes more than once.
C2_AckBeforeClose ==
    \A h \in Conns :
        /\ Len(wrote[h]) <= 1
        /\ (hpc[h] = "done" /\ Truthy(message[h]))
              => wrote[h] = <<FramedBytes(PositiveAckText(ControlId(message[h].val)))>>

C2_Witness ==
    \E h \in Conns :
        /\ hpc[h] = "done"
        /\ ssock[h] = "closed"
        /\ Truthy(message[h])
        /\ wrote[h] = <<FramedBytes(PositiveAckText(<<49>>))>>

\* C3: a client whose connection the started server accepted, and that met
\* no transport failure, returns success with the payload MSA|AA|<control
\* identifier of the message it sent> and no error; the frame it received
\* unwraps to a payload containing that text.
C3_EndToEnd ==
    \A c \in Conns :
        (Returned(c) /\ cfail[c] = "none" /\ hpc[c] # "none")
           => /\ result[c] = Result(TRUE, Some(PositiveAckText(CtrlIdOf(c))), Absent)
              /\ Contains(UnwrapMllp(response[c]), PositiveAckText(CtrlIdOf(c)))

C3_Witness ==
    /\ cmsg[1] = ScenarioMsg(1)
    /\ cpc[1] = "returned"
    /\ result[1] = Result(TRUE, Some(PositiveAckText(<<49>>)), Absent)

\* The bytes sent hold no frame with a payload: no start sentinel, or no end
\* sentinel pair after the first start sentinel, or the pair right after it.
FirstStart(b) == FirstIndex(b, START_OF_BLOCK)

NoFramedPayload(b) ==
    \/ \A i \in 1..Len(b) : b[i] # START_OF_BLOCK
    \/ /\ \E i \in 1..Len(b) : b[i] = START_OF_BLOCK
       /\ \/ ~Contains(SubSeq(b, FirstStart(b) + 1, Len(b)), <<28, 13>>)
          \/ StartsWith(SubSeq(b, FirstStart(b) + 1, Len(b)), <<28, 13>>)

\* C4: an acknowledgment is written only on a connection whose reader
\* returned a non-empty message; when the peer sent no frame with a payload
\* (closed before the start sentinel, closed before the end sentinel pair, or
\* sent an empty payload), the handler ends with no message, nothing
\* written and the connection closed.
C4_NoAckWithoutMessage ==
    \A h \in Conns :
        /\ (wrote[h] # <<>> \/ s2c[h] # <<>>) => Truthy(message[h])
        /\ (hpc[h] = "done" /\ NoFramedPayload(sentBytes[h]))
              => /\ ~Truthy(message[h])
                 /\ wrote[h] = <<>>
                 /\ s2c[h] = <<>>
                 /\ ssock[h] = "closed"

\* The truncated-frame scenario: start sentinel plus 10 bytes, then close.
C4_Witness ==
    /\ sentBytes[1] = SubSeq(WrapMllp(GoodMsg(1)), 1, 11)
    /\ cend[1] = "closed"
    /\ hpc[1] = "done"
    /\ ssock[1] = "closed"
    /\ wrote[1] = <<>>

\* The mock target with one raw peer, where the handler thread of the one
\* connection keeps running and the peer eventually closes its side.
SpecReaderFair ==
    /\ SpecReader
    /\ WF_vars(\E h \in Conns : HandlerNext(h))
    /\ WF_vars(\E c \in Conns : RawClose(c))

\* C5: the server end of an accepted connection stays open while its
\* handler is still reading, and every accepted connection is eventually
\* closed by its handler, whether the read gave a message, no message or an
\* exception.
C5_EventuallyClosed ==
    /\ [](\A h \in Conns : hpc[h] \in {"seek", "accum", "process", "finally"}
                              => ssock[h] = "open")
    /\ \A h \in Conns : (hpc[h] # "none") ~> (hpc[h] = "done" /\ ssock[h] = "closed")

\* A handler whose read raised has closed its connection.
C5_Witness ==
    \E h \in Conns : hpc[h] = "done" /\ ssock[h] = "closed" /\ hexc[h] = "read"

\* C6: a receive that timed out is reported as "Timeout waiting for ACK".
C6_TimeoutReported ==
    \A c \in Conns :
        (Returned(c) /\ cfail[c] = "recv_timeout")
           => result[c] = Result(FALSE, NoneVal, "Timeout waiting for ACK")

\* C7: when the request was sent and the peer closed without sending a
\* byte (the receive ended by a clean close, no timeout, no error), the
\* result is (false, absent, "No ACK received").
C7_NoAckOnCleanClose ==
    \A c \in Conns :
        (Returned(c) /\ sentBytes[c] # <<>> /\ response[c] = <<>> /\ cfail[c] = "none")
           => result[c] = Result(FALSE, NoneVal, "No ACK received")

C7_Witness ==
    /\ cpc[1] = "returned"
    /\ sentBytes[1] # <<>>
    /\ response[1] = <<>>
    /\ ssock[1] = "closed"
    /\ cfail[1] = "none"
    /\ envSent = 0

AllAscii(b) == \A i \in 1..Len(b) : b[i] < 128

StripSentinels(b) == SelectSeq(b, LAMBDA x : x \notin {11, 28, 13})

\* C8: when the response read holds the end sentinel pair, the result
\* carries a payload (for ASCII bytes, the response without its sentinel
\* bytes); a response not classified positive gives success=false with
\* error "Negative ACK received", a positive one gives no error.
C8_PayloadAttached ==
    \A c \in Conns :
        (Returned(c) /\ Contains(response[c], <<28, 13>>))
           => /\ result[c].ack.present
              /\ AllAscii(response[c]) => result[c].ack.val = StripSentinels(response[c])
              /\ result[c].error = IF result[c].success THEN Absent
                                   ELSE "Negative ACK received"

C8_Witness ==
    /\ cpc[1] = "returned"
    /\ response[1] = FramedBytes(AckAE)
    /\ result[1] = Result(FALSE, Some(AckAE), "Negative ACK received")

\* The segments of a payload, separated by carriage returns or line feeds.
Segments(p) == Split([i \in 1..Len(p) |-> IF p[i] = 13 THEN 10 ELSE p[i]], 10)

HasPositiveSegment(p) ==
    \E i \in 1..Len(Segments(p)) :
        LET seg == Segments(p)[i]
        IN  /\ StartsWith(seg, <<77, 83, 65>>)
            /\ Len(Split(seg, 124)) > 1
            /\ Split(seg, 124)[2] = <<65, 65>>

IsFrame(b) == Len(b) >= 3 /\ b[1] = 11 /\ EndsWith(b, <<28, 13>>)

FramePayload(b) == SubSeq(b, 2, Len(b) - 2)

\* C9: for a received frame with a valid UTF-8 payload, success is true
\* exactly when one of the payload's segments (separated by carriage returns
\* or line feeds) begins with MSA and has AA as its second field.
C9_Classification ==
    \A c \in Conns :
        (Returned(c) /\ IsFrame(response[c]) /\ Utf8Valid(FramePayload(response[c])))
           => (result[c].success <=> HasPositiveSegment(FramePayload(response[c])))

ResultErrors ==
    {"Failed to connect to server", "Negative ACK received", "No ACK received",
     "Timeout waiting for ACK", "Error sending message"}

\* C10: every tuple send_message returns has an error exactly when
\* success is false, and has a payload when success is true.
C10_ResultShape ==
    \A c \in Conns :
        Returned(c)
           => /\ result[c].error \in ResultErrors \cup {Absent}
              /\ (result[c].error # Absent) <=> ~result[c].success
              /\ result[c].success => result[c].ack.present

C10_Witness ==
    /\ cpc[1] = "returned"
    /\ result[1].success
    /\ result[1].ack.present
    /\ result[1].error = Absent

\* C11: a send_message that returns on a client whose socket never had an
\* established connection returns (false, absent, "Failed to connect to
\* server") and has sent nothing.
C11_ConnectFirst ==
    \A c \in Conns :
        (kind[c] = "client" /\ cpc[c] = "returned" /\ cend[c] = "none")
           => /\ result[c] = Result(FALSE, NoneVal, "Failed to connect to server")
              /\ sentBytes[c] = <<>>


\* C12: when the client has framed and sent a payload that does not contain
\* the sequence 0x1C 0x0D, the Connection Reader of the server, once its read
\* has ended, has returned exactly that payload.
C12_RoundTrip ==
    \A h \in Conns :
        (/\ kind[h] = "client"
         /\ sentBytes[h] # <<>>
         /\ hpc[h] \in {"process", "finally", "done"}
         /\ ~Contains(cmsg[h], <<28, 13>>))
           => message[h] = Some(cmsg[h])

\* A payload with a carriage return, the start sentinel and a lone 0x1C.
C12_Witness ==
    /\ cmsg[1] = <<13, 11, 28>>
    /\ hpc[1] = "done"
    /\ message[1] = Some(<<13, 11, 28>>)

\* C13: the bytes the client writes for a payload are 0x0B, the encoded
\* payload unchanged, 0x1C, 0x0D: the encoded length plus 3 bytes.
C13_FrameShape ==
    \A c \in Conns :
        (kind[c] = "client" /\ sentBytes[c] # <<>>)
           => LET f == sentBytes[c]
                  n == Len(Utf8Encode(cmsg[c]))
              IN  /\ Len(f) = n + 3
                  /\ f[1] = 11
                  /\ f[n + 2] = 28
                  /\ f[n + 3] = 13
                  /\ SubSeq(f, 2, n + 1) = Utf8Encode(cmsg[c])
                  /\ AllAscii(cmsg[c]) => SubSeq(f, 2, n + 1) = cmsg[c]
                  /\ n = Len(cmsg[c]) + Cardinality({i \in 1..Len(cmsg[c]) : cmsg[c][i] >= 128})

\* A payload with a two-byte character: 3 characters, 4 bytes, frame of 7.
C13_Witness ==
    /\ cmsg[1] = <<120, 233, 28>>
    /\ sentBytes[1] = <<11, 120, 195, 169, 28, 28, 13>>


\* The bytes after the first start sentinel, and of those the bytes before
\* the first end sentinel pair.
AfterStart(b) == SubSeq(b, FirstStart(b) + 1, Len(b))

BeforePair(s) ==
    LET i == CHOOSE k \in 1..(Len(s) - 1) :
                 /\ SubSeq(s, k, k + 1) = <<28, 13>>
                 /\ \A j \in 1..(k - 1) : SubSeq(s, j, j + 1) # <<28, 13>>
    IN  SubSeq(s, 1, i - 1)

HasStart(b) == \E i \in 1..Len(b) : b[i] = 11

\* C14: once the read of a connection has ended, (a) if the peer sent a
\* complete frame after any bytes without a start sentinel, the message is
\* the text between the first start sentinel and the first end sentinel pair
\* after it, whatever came before; (b) if the peer sent no start sentinel at
\* all, the reader gave no message, nothing was written and the handler went
\* on to close the connection.
C14_NoiseDiscarded ==
    \A h \in Conns :
        (kind[h] = "raw" /\ hpc[h] \in {"process", "finally", "done"})
           => /\ (HasStart(sentBytes[h]) /\ Contains(AfterStart(sentBytes[h]), <<28, 13>>))
                    => message[h] = Some(Utf8DecodeIgnore(BeforePair(AfterStart(sentBytes[h]))))
              /\ ~HasStart(sentBytes[h])
                    => /\ message[h] = NoneVal
                       /\ hpc[h] # "process"
                       /\ wrote[h] = <<>>
                       /\ hexc[h] # "write"

\* Two bytes of noise, one of them not valid UTF-8, before a frame.
C14_Witness ==
    /\ sentBytes[1] = <<120, 255>> \o FramedBytes(GoodMsg(1))
    /\ hpc[1] = "done"
    /\ message[1] = Some(GoodMsg(1))


\* The header segment of a message: the text before the first carriage
\* return or line feed.
HeaderOf(m) == Segments(m)[1]

\* C15: the message id extracted for MSH|a|b|c|d|e|f|g|h|i|CTRL123 is
\* CTRL123, and the message id extracted for a message whose header segment
\* has fewer than 10 fields is UNKNOWN, whether a carriage return or a line
\* feed ends the header segment.
C15_ControlId ==
    \A c \in Conns :
        message_id[c].present
           => /\ cmsg[c] = ExampleHeader
                    => message_id[c].val = <<67, 84, 82, 76, 49, 50, 51>>
              /\ Len(Split(HeaderOf(cmsg[c]), 124)) < 10
                    => message_id[c].val = <<85, 78, 75, 78, 79, 87, 78>>


\* C16: close() never raises and leaves the client without a socket,
\* whether it held a connected socket, a socket whose connect failed or
\* none, and whether or not the socket's close failed; and a send_message
\* called on a client without a socket creates a new socket, on which no
\* send has been made, before it sends.
C16_CloseIdempotent ==
    /\ [](\A c \in Conns : cpc[c] = "exited" => (csock[c] = "none" /\ ~raised[c]))
    /\ [][\A c \in Conns :
              (cpc[c] = "idle" /\ csock[c] = "none" /\ cpc'[c] \in {"send", "returned"})
                 => /\ created'[c] = created[c] + 1
                    /\ cpc'[c] = "send" => (csock'[c] = "connected" /\ cycles'[c] = 0)]_vars

\* A send_message on a new connection, after the first connection was
\* closed and further calls were made.
C16_Witness ==
    /\ cpc[1] = "recv"
    /\ calls[1] = 2
    /\ created[1] = 2
    /\ released[1] = 1
    /\ cycles[1] = 1
    /\ csock[1] = "connected"


\* C17: in the test runner, where every client is used in a with statement,
\* at most one socket created by a client is open at any time over the run of
\* the test cases, and once the scope of a test case has been left (after
\* send_message returned, or from the body before it, and also when the
\* connect on entry failed) the client holds no socket and every socket
\* created so far has been closed.
C17_NoSocketLeak ==
    \A c \in Conns :
        /\ created[c] - released[c] \in {0, 1}
        /\ cpc[c] \in {"exited", "finished"}
              => (csock[c] = "none" /\ created[c] = released[c])

\* The second test case has left its scope after a failed connect on entry.
C17_Witness ==
    /\ cpc[1] = "exited"
    /\ calls[1] = 1
    /\ cfail[1] = "connect"
    /\ created[1] = 2
    /\ released[1] = 2


\* C18: no exception leaves connect(), send_message() or close(); a
\* send_message that met a refused connect, a failing or timed-out send or
\* receive, or a reset by the peer returns success=false with one of the
\* error texts, and one that read undecodable bytes returns success=false
\* with an empty payload and "Negative ACK received".
C18_NothingRaised ==
    \A c \in Conns :
        /\ ~raised[c]
        /\ (Returned(c) /\ cfail[c] # "none")
              => /\ ~result[c].success
                 /\ result[c].error \in ResultErrors
        /\ (Returned(c) /\ Contains(response[c], <<28, 13>>)
                        /\ ~Utf8Valid(StripSentinels(response[c])))
              => result[c] = Result(FALSE, Some(<<>>), "Negative ACK received")

\* The peer reset the connection during the receive, and the client has
\* closed its socket.
C18_Witness ==
    /\ cpc[1] = "exited"
    /\ cfail[1] = "recv_error"
    /\ result[1] = Result(FALSE, NoneVal, "No ACK received")
    /\ released[1] = 1
    /\ ~raised[1]


\* C19: no socket of a client has had more than one sendall called on it,
\* and no handler of the server has written more than once on its
\* connection.
C19_OneCyclePerConnection ==
    \A c \in Conns :
        /\ cycles[c] <= 1
        /\ Len(wrote[c]) <= 1


\* C20: once the server runs, the thread of start() is always at the loop
\* test or at accept, whatever the handlers do; and every connection of the
\* client that the kernel has completed is eventually accepted and its
\* handler eventually finishes, also while the handlers of the silent peers
\* stay blocked in their first read.
C20_AcceptKeepsCycling ==
    /\ [](running => spc \in {"loop", "accept"})
    /\ \A c \in Conns :
          (kind[c] = "client" /\ ssock[c] = "pending") ~> (hpc[c] = "done")

\* Every silent peer's handler is blocked in its first read and the handler
\* of the client, which connected after them, has finished.
C20_Witness ==
    /\ \A c \in Conns : kind[c] = "silent" => (hpc[c] = "seek" /\ c2s[c] = <<>>)
    /\ hpc[NConn] = "done"
    /\ result[NConn].success
    /\ touched[NConn] = {NConn}



\* C21: an exception raised by accept, or while a handler thread is being
\* started, is handled inside the loop: control goes back to the loop test
\* and, the running flag being set, on to the next accept; start() has left
\* the loop only when the running flag is cleared.
C21_LoopSurvivesExceptions ==
    /\ [](spc = "returned" => ~running)
    /\ [][/\ (spc = "accept" /\ spc' # spc) => spc' = "loop"
          /\ (spc = "loop" /\ spc' # spc /\ running) => spc' = "accept"
          /\ (spc = "loop" /\ spc' # spc /\ ~running) => spc' = "returned"]_vars

\* A connection was accepted whose thread could not be started, the
\* connection after it was accepted and handled, and the loop is at accept.
C21_Witness ==
    /\ running
    /\ spc = "accept"
    /\ \E c \in Conns : \E d \in Conns :
          /\ ssock[c] = "open" /\ hpc[c] = "none"
          /\ kind[d] = "client" /\ hpc[d] = "done" /\ result[d].success

\* The connections other than h, as the server sees them.
OthersOf(h) ==
    [g \in Conns \ {h} |->
        <<hpc[g], buffer[g], message[g], hexc[g], ssock[g], wrote[g], c2s[g], s2c[g]>>]

\* C22: a failure inside the handler of connection h (a read error, an
\* error while the acknowledgment is written) is confined to h: the step in
\* which it happens and the steps the failed handler takes afterwards leave
\* the running flag, the listening socket, the accept loop and every other
\* connection and handler as they are; the accept loop is still alive, and
\* whichever handlers fail, every handler that was started completes and
\* closes its connection.
C22_FailureConfined ==
    /\ [][\A h \in Conns :
             (hpc'[h] # hpc[h] /\ hexc'[h] # "none") =>
                 /\ <<running, server_socket, spc, stpc, backlog>>' =
                        <<running, server_socket, spc, stpc, backlog>>
                 /\ OthersOf(h)' = OthersOf(h)]_vars
    /\ []((\E h \in Conns : hexc[h] # "none") => spc \in {"loop", "accept"})
    /\ <>[](\A g \in Conns :
               /\ hpc[g] \in {"none", "done"}
               /\ hpc[g] = "done" => ssock[g] = "closed")

\* The handler of one connection failed and ended; the handler of the
\* client's connection completed and the client got its acknowledgment.
C22_Witness ==
    \E h \in Conns : \E g \in Conns \ {h} :
        /\ hexc[h] # "none"
        /\ hpc[h] = "done"
        /\ hpc[g] = "done"
        /\ hexc[g] = "none"
        /\ Returned(g)
        /\ result[g].success


\* C23: stop() clears the running flag and closes the listening socket and
\* nothing else: its steps leave every accepted connection, the bytes in
\* flight on it and every handler as they are, and a handler that is in
\* flight when stop() has returned still completes and closes its own
\* connection.
C23_StopLeavesConnections ==
    /\ [][stpc' # stpc =>
             /\ <<handlerVars, wrote, c2s, s2c, cend>>' = <<handlerVars, wrote, c2s, s2c, cend>>
             /\ \A c \in Conns : ssock[c] # "pending" => ssock'[c] = ssock[c]
             /\ stpc' = "cleared" => ~running'
             /\ stpc' = "done" => server_socket' \in {"none", "closed", "detached"}]_vars
    /\ \A h \in Conns :
          (stpc = "done" /\ hpc[h] \notin {"none", "done"})
             ~> (hpc[h] = "done" /\ ssock[h] = "closed")

\* stop() has returned while a handler, its connection open, is about to
\* write its acknowledgment.
C23_Witness ==
    /\ stpc = "done"
    /\ ~running
    /\ server_socket = "closed"
    /\ \E h \in Conns : hpc[h] = "process" /\ ssock[h] = "open"


\* C24: once stop() has returned on a server whose accept loop was running,
\* no further connection is accepted: no handler is started any more.
C24_StopEndsAccepting ==
    [][stpc = "done" => \A c \in Conns : hpc[c] = "none" => hpc'[c] = "none"]_vars


\* C25: a received byte sequence that does not begin with the start
\* sentinel or does not end with the two end sentinel bytes is not decoded
\* into a payload: the client reports an error outcome, never a successful
\* exchange with the bytes' text as its acknowledgment.
C25_MalformedRejected ==
    \A c \in Conns :
        (Returned(c) /\ cfail[c] = "none" /\ response[c] # <<>> /\ ~IsFrame(response[c]))
           => ~result[c].success

\* C26: decoding is lossy and never rejects: when the payload of a complete
\* response frame holds bytes that are not valid UTF-8 next to a line that
\* is a positive MSA segment, the client still returns the valid text and
\* classifies the response as positive.
C26_LossyDecode ==
    \A c \in Conns :
        (/\ Returned(c)
         /\ IsFrame(response[c])
         /\ ~Utf8Valid(FramePayload(response[c]))
         /\ \E i \in 1..Len(Split(FramePayload(response[c]), 10)) :
                LET line == Split(FramePayload(response[c]), 10)[i]
                IN  Utf8Valid(line) /\ StartsWith(line, <<77, 83, 65, 124, 65, 65>>))
           => /\ result[c].success
              /\ result[c].ack = Some(Utf8DecodeIgnore(FramePayload(response[c])))


\* C27: the client's receive loop ends with the receive that completes the
\* end sentinel pair in what has been received so far, however the response
\* was cut into chunks: no receive is issued while the buffer already holds
\* the pair.  Without the pair the loop goes on until the peer has closed,
\* and nothing the peer wrote before that is lost.
C27_ReceiveStopsAtPair ==
    \A c \in Conns :
        /\ cpc[c] = "recv" => ~Contains(response[c], <<28, 13>>)
        /\ kind[c] = "client" => response[c] \o s2c[c] = SubSeq(envResp, 1, envSent)
        /\ (/\ Returned(c) /\ cfail[c] = "none" /\ sentBytes[c] # <<>>
            /\ ~Contains(response[c], <<28, 13>>))
              => /\ ssock[c] = "closed"
                 /\ s2c[c] = <<>>
        /\ (Returned(c) /\ Contains(response[c], <<28, 13>>))
              => recvs[c] <= Len(response[c])

\* The response arrived in two chunks (cut at any place, between 0x1C and
\* 0x0D included): the first receive left the loop running, the second
\* ended it.
C27_Witness ==
    /\ cpc[1] = "returned"
    /\ recvs[1] = 2
    /\ response[1] = FramedBytes(PositiveAckText(<<49>>))
    /\ envSent = Len(envResp)
    /\ s2c[1] = <<>>
    /\ ssock[1] = "pending"
    /\ result[1].success


\* What follows the first end sentinel pair of s.
AfterPair(s) == SubSeq(s, Len(BeforePair(s)) + 3, Len(s))

\* C28: the server reads at most one frame per connection.  What is still
\* unread is always a tail of what the peer sent; once the read has ended
\* on a stream that holds a start sentinel and, after it, an end sentinel
\* pair, the message is the text up to the first such pair (a payload that
\* contains the pair is cut there) and every byte after that pair is left
\* unread for good; at most one acknowledgment is written on a connection.
C28_OneFramePerConnection ==
    \A h \in Conns :
        /\ Len(wrote[h]) <= 1
        /\ kind[h] = "raw" =>
              /\ Len(c2s[h]) <= Len(sentBytes[h])
              /\ c2s[h] = SubSeq(sentBytes[h], Len(sentBytes[h]) - Len(c2s[h]) + 1,
                                 Len(sentBytes[h]))
        /\ (/\ kind[h] = "raw"
            /\ hpc[h] \in {"process", "finally", "done"}
            /\ HasStart(sentBytes[h])
            /\ Contains(AfterStart(sentBytes[h]), <<28, 13>>))
              => /\ c2s[h] = AfterPair(AfterStart(sentBytes[h]))
                 /\ buffer[h] = BeforePair(AfterStart(sentBytes[h])) \o <<28, 13>>
                 /\ message[h] = Some(Utf8DecodeIgnore(BeforePair(AfterStart(sentBytes[h]))))

\* The peer sent two frames in a row: the handler answered the first and
\* closed with the second frame unread.
C28_Witness ==
    /\ sentBytes[1] = FramedBytes(GoodMsg(1)) \o FramedBytes(GoodMsg(2))
    /\ hpc[1] = "done"
    /\ c2s[1] = FramedBytes(GoodMsg(2))
    /\ message[1] = Some(GoodMsg(1))
    /\ Len(wrote[1]) = 1

\* C29: in a test case the routing log is queried only after send_message
\* has returned success and the client's connection has been closed; when
\* send_message fails the test case ends with passed = false and the
\* database has not been touched: no connection made, no query issued.
C29_QueryAfterExchange ==
    \A c \in Conns :
        kind[c] = "client" =>
            /\ (queries > 0 \/ connection # "none"
                   \/ cpc[c] \in {"dbenter", "dbquery", "dbexit", "assert"})
                  => /\ result[c].success
                     /\ csock[c] = "none"
                     /\ cend[c] = "closed"
                     /\ released[c] = created[c]
            /\ queries <= 1
            /\ (cpc[c] = "finished" /\ ~result[c].success)
                  => /\ ~passed
                     /\ queries = 0
                     /\ connection = "none"
                     /\ routing_data = "unset"
            /\ passed => (cpc[c] = "finished" /\ result[c].success /\ routing_data = "found")

\* A test case whose exchange succeeded, whose client is closed and whose
\* routing record was found and matched.
C29_Witness ==
    /\ cpc[1] = "finished"
    /\ result[1].success
    /\ csock[1] = "none"
    /\ queries = 1
    /\ routing_data = "found"
    /\ passed

\* C30: query_routing_log returns the routing record or None and never
\* raises, also when no connection is held and connecting fails.
C30_QueryNeverRaises ==
    routing_data # "raised"


\* C31: stop() is effective at whatever step of start() it is called: once
\* stop() has returned, having closed the socket that start() created, the
\* running flag is false and stays false, so that start() does not go on
\* looping on the closed listening socket.
C31_StopIsFinal ==
    (stpc = "done" /\ server_socket = "closed") => ~running


\* The payload of the first frame of b: the bytes between the first start
\* sentinel and the first end sentinel pair after it.
FirstFramePayload(b) == BeforePair(AfterStart(b))

\* C32: the acknowledgment text send_message returns is the payload of the
\* first response frame only: what was received after the first end
\* sentinel pair (a second frame in the same chunk) is no part of it and
\* has no influence on the classification.
C32_FirstFrameOnly ==
    \A c \in Conns :
        (/\ Returned(c)
         /\ AllAscii(response[c])
         /\ HasStart(response[c])
         /\ Contains(AfterStart(response[c]), <<28, 13>>)
         /\ StripSentinels(FirstFramePayload(response[c])) = FirstFramePayload(response[c]))
           => /\ result[c].ack = Some(FirstFramePayload(response[c]))
              /\ result[c].success <=> IsPositiveAck(FirstFramePayload(response[c]))

\* C33: send_message returns acknowledgment text only when a complete
\* frame was received: when the peer sent some bytes and closed before the
\* end sentinel pair, the result carries no acknowledgment text and is not
\* reported as "Negative ACK received".
C33_NoAckFromPartialFrame ==
    \A c \in Conns :
        (/\ Returned(c)
         /\ cfail[c] = "none"
         /\ response[c] # <<>>
         /\ ~Contains(response[c], <<28, 13>>))
           => /\ ~result[c].ack.present
              /\ result[c].error # "Negative ACK received"

====
